---- MODULE Spec2Model ----
(***************************************************************************)
(* The Petri-net translator of src/translate: get_safe_operators,          *)
(* remove_negative_preconditions, petri_mapping (petri_translate.py) and   *)
(* PetriNet.sas_translate (petri/petri.py), driven by pddl2petri and main. *)
(***************************************************************************)
EXTENDS Integers, Sequences, FiniteSets, TLC

VARIABLES pc, relaxed_reachable, actions, task_init, safe_operators,
          additional_literals, petri, marking, fired, sas, result

vars == <<pc, relaxed_reachable, actions, task_init, safe_operators,
          additional_literals, petri, marking, fired, sas, result>>

\* ---------------------------------------------------------------- bounds
\* Total number of literals (preconditions plus effects) over the grounded
\* operators of a task.
MaxLits == 4
\* Number of grounded operators of a task.
MaxOps == 2
\* Token count per place up to which firing is explored.
MaxTokens == 2
\* Number of top-level goal literals.
MaxGoal == 2

\* The fluent predicates of the grounded task (all of arity 0).
Preds == {"a", "b"}
\* A predicate that is no fluent of the task (it has no place).
NoPred == "c"
OpNames == <<"x", "y", "z", "w">>
\* Orders in which a Python set of literals is iterated (hash dependent).
Seeds == {"asc", "desc"}

\* ------------------------------------------------------- pddl literals
Atom(p) == [predicate |-> p, negated |-> FALSE]

NegatedAtom(p) == [predicate |-> p, negated |-> TRUE]

negate(l) == [predicate |-> l.predicate, negated |-> ~l.negated]

positive(l) == [predicate |-> l.predicate, negated |-> FALSE]

str(l) == (IF l.negated THEN "NegatedAtom " ELSE "Atom ") \o l.predicate \o "()"

\* deepcopy(l.negate()) followed by  .predicate = f'not_{l.predicate}'
not_literal(l) == [predicate |-> "not_" \o l.predicate, negated |-> ~l.negated]

Literals == {Atom(p) : p \in Preds} \cup {NegatedAtom(p) : p \in Preds}

\* ------------------------------------------------------------ sequences
Range(s) == {s[i] : i \in 1..Len(s)}

InSeq(x, s) == \E i \in 1..Len(s) : s[i] = x

RECURSIVE Flatten(_)
Flatten(ss) == IF ss = <<>> THEN <<>> ELSE Head(ss) \o Flatten(Tail(ss))

PredOrder == <<"a", "b", "not_a", "not_b", "c", "not_c">>

Rank(l) ==
  2 * (CHOOSE i \in 1..Len(PredOrder) : PredOrder[i] = l.predicate)
    + (IF l.negated THEN 1 ELSE 0)

\* The elements of the set S in the iteration order the hash seed sd gives.
RECURSIVE SetIter(_, _)
SetIter(S, sd) ==
  IF S = {} THEN <<>>
  ELSE LET x == CHOOSE y \in S :
                  \A z \in S : IF sd = "asc" THEN Rank(y) <= Rank(z)
                                             ELSE Rank(y) >= Rank(z)
       IN <<x>> \o SetIter(S \ {x}, sd)

\* --------------------------------------------------- PropositionalAction
\* The effects are split by polarity; del_effects holds the atoms deleted
\* (each in its positive form), without those that are also added.
PropositionalAction(name, precondition, effects, cost) ==
  LET adds == SelectSeq(effects, LAMBDA e : ~e.negated)
      dels == SelectSeq(effects,
                LAMBDA e : e.negated /\ ~InSeq(negate(e), adds))
  IN [name |-> name,
      precondition |-> precondition,
      add_effects |-> adds,
      del_effects |-> [i \in 1..Len(dels) |-> negate(dels[i])],
      cost |-> cost]

\* ---------------------------------------------------- grounded operators
LitSeqs(n) == [1..n -> Literals]

GroundedOps(name, budget) ==
  UNION {{PropositionalAction(name, pre, eff, 1) :
            pre \in LitSeqs(i), eff \in UNION {LitSeqs(j) : j \in 0..(budget - i)}}
           : i \in 0..budget}

Lits(op) == Len(op.precondition) + Len(op.add_effects) + Len(op.del_effects)

RECURSIVE OpLists(_, _)
OpLists(idx, budget) ==
  {<<>>} \cup
  (IF idx > MaxOps THEN {}
   ELSE UNION {{<<op>> \o rest : rest \in OpLists(idx + 1, budget - Lits(op))}
                 : op \in GroundedOps(OpNames[idx], budget)})

Tasks == OpLists(1, MaxLits)

\* ------------------------------------------------------------- powerset
\* itertools.combinations(range(lo, n + 1), r), as index tuples in order.
RECURSIVE combinations(_, _, _)
combinations(lo, n, r) ==
  IF r = 0 THEN << <<>> >>
  ELSE IF lo > n THEN <<>>
  ELSE LET with == combinations(lo + 1, n, r - 1)
       IN [i \in 1..Len(with) |-> <<lo>> \o with[i]]
          \o combinations(lo + 1, n, r)

\* chain.from_iterable(combinations(s, r) for r in range(len(s) + 1))
powerset(s) ==
  LET idx == Flatten([r1 \in 1..(Len(s) + 1) |-> combinations(1, Len(s), r1 - 1)])
  IN [k \in 1..Len(idx) |-> [j \in 1..Len(idx[k]) |-> s[idx[k][j]]]]

\* --------------------------------------------------- get_safe_operators
\* Each precondition of a grounded operator is a literal: cond.parts is
\* empty and parts = [cond].
not_negated_effect(eff, preconditions) ==
  \A i \in 1..Len(preconditions) :
     ~(preconditions[i] = negate(eff) \/ preconditions[i] = eff)

preconditions_atoms(preconditions) == preconditions

join_add_del_effects(add_effects, del_effects) ==
  add_effects \o [i \in 1..Len(del_effects) |-> negate(del_effects[i])]

\* safe_operators_of with the two branches of lines 160-163 exchanged.
safe_operators_of_swapped(op, sd) ==
  LET preconditions == op.precondition
      effects == join_add_del_effects(op.add_effects, op.del_effects)
      not_negated_effects ==
        SelectSeq(effects, LAMBDA eff : not_negated_effect(eff, preconditions))
      negated_effects == Range(effects) \ Range(not_negated_effects)
      orig_pre == Range(preconditions_atoms(preconditions))
      subsets == powerset(not_negated_effects)
      expanded(i) ==
        LET e == negated_effects \cup Range(subsets[i])
            p == orig_pre \cup
                 {IF nn \in e THEN nn ELSE negate(nn) :
                    nn \in Range(not_negated_effects)}
        IN PropositionalAction(op.name \o "_" \o ToString(i),
                               SetIter(p, sd), SetIter(e, sd), op.cost)
  IN IF not_negated_effects = <<>> THEN <<op>>
     ELSE [i \in 1..Len(subsets) |-> expanded(i)]

\* The operators appended to safe_operators for one operator op.
safe_operators_of(op, sd) ==
  LET preconditions == op.precondition
      effects == join_add_del_effects(op.add_effects, op.del_effects)
      not_negated_effects ==
        SelectSeq(effects, LAMBDA eff : not_negated_effect(eff, preconditions))
      negated_effects == Range(effects) \ Range(not_negated_effects)
      orig_pre == Range(preconditions_atoms(preconditions))
      subsets == powerset(not_negated_effects)
      expanded(i) ==
        LET e == negated_effects \cup Range(subsets[i])
            p == orig_pre \cup
                 {IF nn \in e THEN negate(nn) ELSE nn :
                    nn \in Range(not_negated_effects)}
        IN PropositionalAction(op.name \o "_" \o ToString(i),
                               SetIter(p, sd), SetIter(e, sd), op.cost)
  IN IF not_negated_effects = <<>> THEN <<op>>
     ELSE [i \in 1..Len(subsets) |-> expanded(i)]

get_safe_operators(operators, sd) ==
  Flatten([n \in 1..Len(operators) |-> safe_operators_of(operators[n], sd)])

\* ---------------------------------------------------------------- state
NoNet == [kind |-> "None", places |-> <<>>, transitions |-> <<>>]

Init ==
  /\ pc = "explore"
  /\ relaxed_reachable = TRUE
  /\ actions = <<>>
  /\ task_init = <<>>
  /\ safe_operators = <<>>
  /\ additional_literals = <<>>
  /\ petri = NoNet
  /\ marking = <<>>
  /\ fired = 0
  /\ sas = <<>>
  /\ result = "running"

\* instantiate.explore(task): the grounder's answer is an input here.
Explore ==
  /\ pc = "explore"
  /\ \E ops \in Tasks, rr \in BOOLEAN :
       /\ actions' = ops
       /\ relaxed_reachable' = rr
  /\ pc' = "explored"
  /\ UNCHANGED <<task_init, safe_operators, additional_literals, petri, marking,
                 fired, sas, result>>

GetSafeOperators ==
  /\ pc = "explored"
  /\ relaxed_reachable
  /\ \E sd \in Seeds : safe_operators' = get_safe_operators(actions, sd)
  /\ pc' = "safe"
  /\ UNCHANGED <<relaxed_reachable, actions, task_init, additional_literals, petri,
                 marking, fired, sas, result>>

\* ------------------------------------------ remove_negative_preconditions
\* A Python dict as the sequence of its <<key, value>> items in insertion order.
DictKeys(d) == {d[i][1] : i \in 1..Len(d)}

DictGet(d, k) == d[CHOOSE i \in 1..Len(d) : d[i][1] = k][2]

DictSet(d, k, v) ==
  IF k \in DictKeys(d)
  THEN LET i == CHOOSE j \in 1..Len(d) : d[j][1] = k
       IN SubSeq(d, 1, i - 1) \o << <<k, v>> >> \o SubSeq(d, i + 1, Len(d))
  ELSE Append(d, <<k, v>>)

\* additional_literals after the loop over the preconditions preconds[from..]
RECURSIVE record_preconds(_, _, _)
record_preconds(d, preconds, from) ==
  IF from > Len(preconds) THEN d
  ELSE record_preconds(
         IF preconds[from].negated
         THEN DictSet(d, preconds[from], not_literal(preconds[from]))
         ELSE d,
         preconds, from + 1)

\* additional_literals after the loop over the effects effects[from..]
RECURSIVE record_effects(_, _, _)
record_effects(d, effects, from) ==
  IF from > Len(effects) THEN d
  ELSE record_effects(
         IF effects[from].negated
         THEN DictSet(d, effects[from], not_literal(effects[from]))
         ELSE d,
         effects, from + 1)

\* remove_negative_of without the opposite literal of each effect
\* (new_effects of lines 198-204 left empty).
remove_negative_of_no_opposite(op, d) ==
  LET preconds == op.precondition
      d1 == record_preconds(d, preconds, 1)
      new_preconds ==
        [i \in 1..Len(preconds) |->
           IF preconds[i].negated THEN DictGet(d1, preconds[i]) ELSE preconds[i]]
      effects == join_add_del_effects(op.add_effects, op.del_effects)
      d2 == record_effects(d1, effects, 1)
  IN [op |-> PropositionalAction(op.name, new_preconds, effects, op.cost),
      dict |-> d2]

\* One iteration of the loop over safe_operators: the rewritten operator
\* and the dict it leaves.
remove_negative_of(op, d) ==
  LET preconds == op.precondition
      d1 == record_preconds(d, preconds, 1)
      new_preconds ==
        [i \in 1..Len(preconds) |->
           IF preconds[i].negated THEN DictGet(d1, preconds[i]) ELSE preconds[i]]
      effects == join_add_del_effects(op.add_effects, op.del_effects)
      new_effects == [i \in 1..Len(effects) |-> not_literal(effects[i])]
      d2 == record_effects(d1, effects, 1)
  IN [op |-> PropositionalAction(op.name, new_preconds,
                                 effects \o new_effects, op.cost),
      dict |-> d2]

\* The loop over safe_operators after its first n iterations: the rewritten
\* operators safe_operators[1..n] and the dict.
RECURSIVE remove_negative_preconditions(_, _)
remove_negative_preconditions(ops, n) ==
  IF n = 0 THEN [ops |-> <<>>, dict |-> <<>>]
  ELSE LET prev == remove_negative_preconditions(ops, n - 1)
           step == remove_negative_of(ops[n], prev.dict)
       IN [ops |-> Append(prev.ops, step.op), dict |-> step.dict]

RemoveNegativePreconditions ==
  /\ pc = "safe"
  /\ LET r == remove_negative_preconditions(safe_operators, Len(safe_operators))
     IN /\ safe_operators' = r.ops
        /\ additional_literals' = r.dict
  /\ pc' = "positive"
  /\ UNCHANGED <<relaxed_reachable, actions, task_init, petri, marking, fired, sas,
                 result>>

\* -------------------------------------------------------- petri_mapping
\* The original atoms instantiate.explore returns, in its sorted order.
atoms == SetIter({Atom(p) : p \in Preds}, "asc")

\* task.init: the atoms of the initial state, followed by the entry that is
\* no Atom (the numeric assignment of the total cost).
Inits ==
  {[i \in 1..Cardinality(S) |-> [class |-> "Atom", atom |-> SetIter(S, "asc")[i]]]
     \o <<[class |-> "Assign", atom |-> Atom("total-cost")]>> :
     S \in SUBSET {Atom(p) : p \in Preds}}

isinstance_Atom(ini) == ini.class = "Atom"

PetriPlace(name, tokens) == [name |-> name, tokens |-> tokens]

PetriTransition(name, origins, destinations, cost) ==
  [name |-> name, origins |-> origins, destinations |-> destinations,
   cost |-> cost]

\* mapping_places with line 246 testing orig in place of orig.positive().
mapping_places_no_positive(atom_list, dict, init) ==
  LET clean_init == {ini.atom : ini \in {x \in Range(init) : isinstance_Atom(x)}}
      n == Len(atom_list)
  IN [places |->
        [i \in 1..(n + Len(dict)) |->
           IF i <= n
           THEN PetriPlace(str(atom_list[i]),
                           IF atom_list[i] \in clean_init THEN 1 ELSE 0)
           ELSE PetriPlace(str(dict[i - n][2]),
                           IF dict[i - n][1] \notin clean_init THEN 1 ELSE 0)],
      index |->
        [a \in Range(atom_list) \cup {dict[i][2] : i \in 1..Len(dict)} |->
           IF \E i \in 1..Len(dict) : dict[i][2] = a
           THEN n + (CHOOSE i \in 1..Len(dict) :
                       /\ dict[i][2] = a
                       /\ \A j \in (i + 1)..Len(dict) : dict[j][2] # a)
           ELSE CHOOSE i \in 1..n :
                  /\ atom_list[i] = a
                  /\ \A j \in (i + 1)..n : atom_list[j] # a]]

\* Lines 237-249: the places, and the dict from atoms to (indices of) places.
mapping_places(atom_list, dict, init) ==
  LET clean_init == {ini.atom : ini \in {x \in Range(init) : isinstance_Atom(x)}}
      n == Len(atom_list)
  IN [places |->
        [i \in 1..(n + Len(dict)) |->
           IF i <= n
           THEN PetriPlace(str(atom_list[i]),
                           IF atom_list[i] \in clean_init THEN 1 ELSE 0)
           ELSE PetriPlace(str(dict[i - n][2]),
                           IF positive(dict[i - n][1]) \notin clean_init
                           THEN 1 ELSE 0)],
      index |->
        [a \in Range(atom_list) \cup {dict[i][2] : i \in 1..Len(dict)} |->
           \* a later assignment to the same key wins
           IF \E i \in 1..Len(dict) : dict[i][2] = a
           THEN n + (CHOOSE i \in 1..Len(dict) :
                       /\ dict[i][2] = a
                       /\ \A j \in (i + 1)..Len(dict) : dict[j][2] # a)
           ELSE CHOOSE i \in 1..n :
                  /\ atom_list[i] = a
                  /\ \A j \in (i + 1)..n : atom_list[j] # a]]

\* preserved without the test of line 265 against del_effects: a deleted
\* precondition goes to the destinations as well.
RECURSIVE preserved_keeping_deleted(_, _, _, _)
preserved_keeping_deleted(destinations, precondition, del_effects, from) ==
  IF from > Len(precondition) THEN destinations
  ELSE LET precond == precondition[from]
           str_dests == {str(dest) : dest \in Range(destinations)}
       IN preserved_keeping_deleted(
            IF str(precond) \notin str_dests
            THEN Append(destinations, precond)
            ELSE destinations,
            precondition, del_effects, from + 1)

\* destinations after the loop over the preconditions precondition[from..]
RECURSIVE preserved(_, _, _, _)
preserved(destinations, precondition, del_effects, from) ==
  IF from > Len(precondition) THEN destinations
  ELSE LET precond == precondition[from]
           str_dests == {str(dest) : dest \in Range(destinations)}
       IN preserved(
            IF str(precond) \notin str_dests /\ str(precond) \notin del_effects
            THEN Append(destinations, precond)
            ELSE destinations,
            precondition, del_effects, from + 1)

\* Lines 251-271: the transition of one operator; places are held by index.
mapping_transition(op, index) ==
  LET origins == op.precondition
      del_effects == {str(dele) : dele \in Range(op.del_effects)}
      destinations == preserved(op.add_effects, op.precondition, del_effects, 1)
  IN PetriTransition(op.name,
                     [i \in 1..Len(origins) |-> index[origins[i]]],
                     [i \in 1..Len(destinations) |-> index[destinations[i]]],
                     op.cost)

petri_mapping(atom_list, dict, ops, init) ==
  LET pl == mapping_places(atom_list, dict, init)
  IN [kind |-> "PetriNet",
      places |-> pl.places,
      transitions |->
        [n \in 1..Len(ops) |-> mapping_transition(ops[n], pl.index)]]

PetriMapping ==
  /\ pc = "positive"
  /\ \E init \in Inits :
       /\ task_init' = init
       /\ petri' = petri_mapping(atoms, additional_literals, safe_operators, init)
  /\ marking' = [i \in 1..Len(petri'.places) |-> petri'.places[i].tokens]
  /\ fired' = 0
  /\ pc' = "mapped"
  /\ UNCHANGED <<relaxed_reachable, actions, safe_operators,
                 additional_literals, sas, result>>

\* ----------------------------------------------------- firing semantics
\* A place listed k times among the origins (destinations) of a transition
\* is an arc of weight k: firing takes (puts) one token per listing.
Count(s, x) == Cardinality({i \in 1..Len(s) : s[i] = x})

enabled(t, m) == \A i \in 1..Len(t.origins) : m[t.origins[i]] >= Count(t.origins, t.origins[i])

fire(t, m) ==
  [q \in 1..Len(m) |-> m[q] - Count(t.origins, q) + Count(t.destinations, q)]

\* Fire one enabled transition of the net built by petri_mapping; fired
\* tells whether no, one or more transitions were fired since the initial
\* marking.
Fire ==
  /\ pc = "mapped"
  /\ petri.kind = "PetriNet"
  /\ \E n \in 1..Len(petri.transitions) :
       /\ enabled(petri.transitions[n], marking)
       /\ \A q \in 1..Len(marking) :
            fire(petri.transitions[n], marking)[q] <= MaxTokens
       /\ marking' = fire(petri.transitions[n], marking)
       /\ fired' = IF fired = 0 THEN 1 ELSE 2
  /\ UNCHANGED <<pc, relaxed_reachable, actions, task_init, safe_operators,
                 additional_literals, petri, sas, result>>

\* -------------------------------------------------------- sas_translate
\* The literals a goal can name: fluents of the task and one predicate that
\* is no fluent.
GoalLiterals ==
  {Atom(p) : p \in {"a", NoPred}} \cup {NegatedAtom(p) : p \in {"a", NoPred}}

\* task.goal: a bare literal (parts is empty) or a conjunction of literals.
Goals ==
  {[literal |-> l, parts |-> <<>>] : l \in GoalLiterals} \cup
  {[literal |-> Atom("and"), parts |-> ps] :
     ps \in UNION {[1..k -> GoalLiterals] : k \in 1..MaxGoal}}

\* Lines 147-150
pddl_goals(goal) == IF goal.parts # <<>> THEN goal.parts ELSE <<goal.literal>>

\* goals_of_place with a negated goal literal matched against the complement
\* place, as value 1, in place of the place of its atom, as value 0.
RECURSIVE goals_of_place_complement(_, _, _, _)
goals_of_place_complement(name, var, goals, from) ==
  IF from > Len(goals) THEN <<>>
  ELSE (IF str(goals[from]) = name THEN << <<var, 1>> >> ELSE <<>>)
       \o (IF goals[from].negated /\ str(not_literal(goals[from])) = name
           THEN << <<var, 1>> >> ELSE <<>>)
       \o goals_of_place_complement(name, var, goals, from + 1)

\* Lines 160-164: the pairs one place adds to petri_goals; var is the
\* variable of the place, len(ranges) - 1.
RECURSIVE goals_of_place(_, _, _, _)
goals_of_place(name, var, goals, from) ==
  IF from > Len(goals) THEN <<>>
  ELSE (IF str(goals[from]) = name THEN << <<var, 1>> >> ELSE <<>>)
       \o (IF str(negate(goals[from])) = name THEN << <<var, 0>> >> ELSE <<>>)
       \o goals_of_place(name, var, goals, from + 1)

\* place2var after the loop over the places: the last place of a name wins.
place2var(places, name) ==
  (CHOOSE i \in 1..Len(places) :
     /\ places[i].name = name
     /\ \A j \in (i + 1)..Len(places) : places[j].name # name) - 1

\* Lines 174-195: the pre_post list of one transition.
pre_post_of(tran, places) ==
  LET oname(i) == places[tran.origins[i]].name
      dname(i) == places[tran.destinations[i]].name
      from_origins ==
        [i \in 1..Len(tran.origins) |->
           <<place2var(places, oname(i)), 1,
             IF \E j \in 1..Len(tran.destinations) : dname(j) = oname(i)
             THEN 1 ELSE 0,
             <<>> >>]
      entered_vars == {from_origins[i][1] : i \in 1..Len(from_origins)}
      dest_entry(j) ==
        IF place2var(places, dname(j)) \in entered_vars THEN <<>>
        ELSE << <<place2var(places, dname(j)),
                  IF \E i \in 1..Len(tran.origins) : oname(i) = dname(j)
                  THEN 1 ELSE 0,
                  1, <<>> >> >>
  IN from_origins \o Flatten([j \in 1..Len(tran.destinations) |-> dest_entry(j)])

SASOperator(name, prevail, pre_post, cost) ==
  [name |-> name, prevail |-> prevail, pre_post |-> pre_post, cost |-> cost]

sas_translate(net, goal) ==
  LET places == net.places
      n == Len(places)
  IN [ranges |-> [i \in 1..n |-> 2],
      axiom_layers |-> [i \in 1..n |-> -1],
      value_names |-> [i \in 1..n |-> <<places[i].name \o "(false)",
                                        places[i].name \o "(true)">>],
      init |-> [i \in 1..n |-> IF places[i].tokens > 0 THEN 1 ELSE 0],
      goal |-> Flatten([i \in 1..n |->
                 goals_of_place(places[i].name, i - 1, pddl_goals(goal), 1)]),
      mutexes |-> <<>>,
      operators |-> [t \in 1..Len(net.transitions) |->
                       SASOperator("(" \o net.transitions[t].name \o ")", <<>>,
                                   pre_post_of(net.transitions[t], places),
                                   net.transitions[t].cost)],
      axioms |-> <<>>,
      metric |-> TRUE]

\* ------------------------------------------------------ pddl2petri, main
\* Line 289: pddl2petri returns translate.unsolvable_sas_task(...), a
\* SASTask, in place of a PetriNet.
unsolvable_sas_task(msg) ==
  [kind |-> "SASTask", places |-> <<>>, transitions |-> <<>>]

Unsolvable ==
  /\ pc = "explored"
  /\ ~relaxed_reachable
  /\ petri' = unsolvable_sas_task("No relaxed solution")
  /\ pc' = "mapped"
  /\ UNCHANGED <<relaxed_reachable, actions, task_init, safe_operators,
                 additional_literals, marking, fired, sas, result>>

\* main, lines 320-323: petri.sas_translate(task.goal, output_file) on the
\* net pddl2petri returned, before any transition is fired.
SasTranslate ==
  /\ pc = "mapped"
  /\ fired = 0
  /\ petri.kind = "PetriNet"
  /\ \E goal \in Goals :
       sas' = [goal_in |-> goal, task |-> sas_translate(petri, goal)]
  /\ pc' = "done"
  /\ result' = "Done"
  /\ UNCHANGED <<relaxed_reachable, actions, task_init, safe_operators,
                 additional_literals, petri, marking, fired>>

\* main, line 322, when pddl2petri returned the SASTask of line 289: a
\* SASTask has no attribute sas_translate.
SasTranslateNoAttribute ==
  /\ pc = "mapped"
  /\ petri.kind = "SASTask"
  /\ pc' = "done"
  /\ result' = "AttributeError"
  /\ UNCHANGED <<relaxed_reachable, actions, task_init, safe_operators,
                 additional_literals, petri, marking, fired, sas>>

Next ==
  \/ Explore
  \/ GetSafeOperators
  \/ RemoveNegativePreconditions
  \/ PetriMapping
  \/ Fire
  \/ Unsolvable
  \/ SasTranslate
  \/ SasTranslateNoAttribute

Spec == Init /\ [][Next]_vars

\* ================================================================ claims
NetBuilt == petri.kind = "PetriNet"

\* The indices of the places named name.
PlacesNamed(name) == {i \in 1..Len(petri.places) : petri.places[i].name = name}

InitAtoms == {task_init[i].atom : i \in {j \in 1..Len(task_init) : task_init[j].class = "Atom"}}

InitialMarking == [i \in 1..Len(petri.places) |-> petri.places[i].tokens]

RECURSIVE Pow2(_)
Pow2(k) == IF k = 0 THEN 1 ELSE 2 * Pow2(k - 1)

\* The effects of an operator as the literals they make true.
Effects(op) == Range(op.add_effects) \cup {negate(d) : d \in Range(op.del_effects)}

\* The effects that neither negate nor equal a precondition literal.
Ambiguous(op) ==
  {eff \in Effects(op) :
     \A q \in Range(op.precondition) : q # eff /\ q # negate(eff)}

\* The number of entries of the effect list of op that are ambiguous.
NumAmbiguous(op) ==
  Cardinality({i \in 1..Len(op.add_effects) : op.add_effects[i] \in Ambiguous(op)})
  + Cardinality({i \in 1..Len(op.del_effects) :
                   negate(op.del_effects[i]) \in Ambiguous(op)})

\* The operators of safe_operators that come from the grounded operator n.
ExpandedFrom(n) ==
  {k \in 1..Len(safe_operators) :
     \/ safe_operators[k].name = actions[n].name
     \/ \E i \in 1..Pow2(MaxLits + 1) :
          safe_operators[k].name = actions[n].name \o "_" \o ToString(i)}

\* C1: in the net built by the pipeline every reachable marking has at most
\* one token in every place.
C1_OneSafe ==
  NetBuilt => \A q \in 1..Len(marking) : marking[q] <= 1

\* C2: for every atom p with a generated complement not_p, exactly one of
\* Place(p) and Place(not_p) holds a token in the initial marking and after
\* firing one enabled transition from it.
C2_ComplementConsistency ==
  (NetBuilt /\ fired <= 1) =>
    \A k \in 1..Len(additional_literals) :
      \A i \in PlacesNamed(str(positive(additional_literals[k][1]))),
         j \in PlacesNamed(str(additional_literals[k][2])) :
        (marking[i] > 0) # (marking[j] > 0)

\* A transition was fired from the initial marking, it moved the token of an
\* atom to its complement or back.
C2_Witness ==
  /\ NetBuilt
  /\ fired = 1
  /\ \E k \in 1..Len(additional_literals) :
       \E i \in PlacesNamed(str(positive(additional_literals[k][1]))) :
         marking[i] # InitialMarking[i]

\* C7: petri_mapping creates one place per original atom, marked iff the
\* atom is in the initial state, then one place per (original, complement)
\* pair, marked iff the positive form of the original is not in the initial
\* state; there are no other places and no place starts with two tokens.
C7_PlacesAndInitialMarking ==
  NetBuilt =>
    /\ Len(petri.places) = Len(atoms) + Len(additional_literals)
    /\ \A i \in 1..Len(atoms) :
         /\ petri.places[i].name = str(atoms[i])
         /\ petri.places[i].tokens = (IF atoms[i] \in InitAtoms THEN 1 ELSE 0)
    /\ \A k \in 1..Len(additional_literals) :
         /\ petri.places[Len(atoms) + k].name = str(additional_literals[k][2])
         /\ petri.places[Len(atoms) + k].tokens =
              (IF positive(additional_literals[k][1]) \in InitAtoms THEN 0 ELSE 1)
    /\ \A i \in 1..Len(petri.places) : petri.places[i].tokens \in {0, 1}

\* A net with a marked and an unmarked atom place and with a marked and an
\* unmarked complement place.
C7_Witness ==
  /\ NetBuilt
  /\ \E i, j \in 1..Len(atoms) :
       petri.places[i].tokens = 1 /\ petri.places[j].tokens = 0
  /\ \E k, l \in 1..Len(additional_literals) :
       /\ petri.places[Len(atoms) + k].tokens = 1
       /\ petri.places[Len(atoms) + l].tokens = 0

\* C8: no transition of a net built by petri_mapping has two origins or two
\* destinations referencing the same place (by name).
C8_NoDuplicatePlaces ==
  NetBuilt =>
    \A t \in 1..Len(petri.transitions) :
      LET tr == petri.transitions[t]
      IN /\ \A i, j \in 1..Len(tr.origins) :
              i # j => petri.places[tr.origins[i]].name
                         # petri.places[tr.origins[j]].name
         /\ \A i, j \in 1..Len(tr.destinations) :
              i # j => petri.places[tr.destinations[i]].name
                         # petri.places[tr.destinations[j]].name

\* ------------------------------------------- claims on get_safe_operators
Expanded == pc = "safe"

\* Truth assignments over the atoms, as the set of the true atoms.
Assignments == SUBSET {Atom(p) : p \in Preds}

holds(l, s) == IF l.negated THEN negate(l) \notin s ELSE l \in s

applicable(op, s) == \A l \in Range(op.precondition) : holds(l, s)

apply(op, s) == (s \ Range(op.del_effects)) \cup Range(op.add_effects)

\* C3: for every grounded operator o and every truth assignment s in which
\* the precondition of o holds, exactly one operator expanded from o is
\* applicable in s, and it leads to the state o leads to; no expanded
\* operator is applicable where o is not.
C3_ExpansionPreservesBehaviour ==
  Expanded =>
    \A n \in 1..Len(actions) : \A s \in Assignments :
      LET app == {k \in ExpandedFrom(n) : applicable(safe_operators[k], s)}
      IN IF applicable(actions[n], s)
         THEN /\ Cardinality(app) = 1
              /\ \A k \in app :
                   apply(safe_operators[k], s) = apply(actions[n], s)
         ELSE app = {}

\* The precondition literals of the expanded operator k over the ambiguous
\* effects of the operator n it comes from.
Polarity(n, k) ==
  {l \in Range(safe_operators[k].precondition) :
     l \in Ambiguous(actions[n]) \/ negate(l) \in Ambiguous(actions[n])}

\* C4: an operator with k >= 1 ambiguous effects yields exactly 2^k expanded
\* operators, named <name>_1 .. <name>_(2^k), with pairwise distinct names
\* and pairwise distinct polarity combinations over the ambiguous effects.
C4_PowerSetCompleteness ==
  Expanded =>
    \A n \in 1..Len(actions) :
      NumAmbiguous(actions[n]) >= 1 =>
        /\ Cardinality(ExpandedFrom(n)) = Pow2(NumAmbiguous(actions[n]))
        /\ {safe_operators[k].name : k \in ExpandedFrom(n)}
             = {actions[n].name \o "_" \o ToString(i) :
                  i \in 1..Pow2(NumAmbiguous(actions[n]))}
        /\ \A k1, k2 \in ExpandedFrom(n) :
             k1 # k2 =>
               /\ safe_operators[k1].name # safe_operators[k2].name
               /\ Polarity(n, k1) # Polarity(n, k2)

\* The subset of the ambiguous effects the expanded operator k was built for.
SubsetOf(n, k) == Ambiguous(actions[n]) \cap Effects(safe_operators[k])

\* C5, as stated: the precondition of an expanded operator is the original
\* precondition plus each ambiguous effect of its subset and the negation of
\* each ambiguous effect outside its subset.
C5_PreconditionAsStated ==
  Expanded =>
    \A n \in 1..Len(actions) :
      Ambiguous(actions[n]) # {} =>
        \A k \in ExpandedFrom(n) :
          Range(safe_operators[k].precondition) =
            Range(actions[n].precondition)
              \cup SubsetOf(n, k)
              \cup {negate(l) : l \in Ambiguous(actions[n]) \ SubsetOf(n, k)}

\* C5, amended: the precondition of an expanded operator is the original
\* precondition plus the negation of each ambiguous effect of its subset
\* and each ambiguous effect outside its subset.
C5_PreconditionOfExpanded ==
  Expanded =>
    \A n \in 1..Len(actions) :
      Ambiguous(actions[n]) # {} =>
        \A k \in ExpandedFrom(n) :
          Range(safe_operators[k].precondition) =
            Range(actions[n].precondition)
              \cup {negate(l) : l \in SubsetOf(n, k)}
              \cup (Ambiguous(actions[n]) \ SubsetOf(n, k))

\* An operator with two ambiguous effects was expanded, and one of its
\* expansions includes one of them and excludes the other.
C5_Witness ==
  /\ Expanded
  /\ \E n \in 1..Len(actions) :
       /\ Cardinality(Ambiguous(actions[n])) = 2
       /\ \E k \in ExpandedFrom(n) :
            /\ SubsetOf(n, k) # {}
            /\ SubsetOf(n, k) # Ambiguous(actions[n])

\* C6: an effect literal that is also a precondition literal (same polarity)
\* is in the effect set of no operator expanded from the operator and
\* causes no case split.
C6_VerbatimEffectDropped ==
  Expanded =>
    \A n \in 1..Len(actions) :
      /\ \A eff \in Effects(actions[n]) \cap Range(actions[n].precondition) :
           \A k \in ExpandedFrom(n) : eff \notin Effects(safe_operators[k])
      /\ Cardinality(ExpandedFrom(n)) = Pow2(NumAmbiguous(actions[n]))

\* ----------------------------------------- claims on sas_translate, main
Translated == pc = "done" /\ result = "Done"

\* C9: sas_translate declares exactly one binary variable per place, in the
\* order of the places, and the goal pairs are exactly (var(g), 1) for the
\* positive goal literals g that name a place and (var(g), 0), on the
\* variable of g itself, for the negated goal literals whose atom names a
\* place.
C9_GoalTranslation ==
  Translated =>
    LET t == sas.task
        gs == Range(pddl_goals(sas.goal_in))
        n == Len(petri.places)
    IN /\ Len(t.ranges) = n
       /\ Len(t.value_names) = n
       /\ \A i \in 1..n :
            /\ t.ranges[i] = 2
            /\ t.value_names[i] = <<petri.places[i].name \o "(false)",
                                    petri.places[i].name \o "(true)">>
       /\ Range(t.goal) =
            {<<i - 1, 1>> : i \in UNION {PlacesNamed(str(g)) :
                                           g \in {h \in gs : ~h.negated}}}
            \cup
            {<<i - 1, 0>> : i \in UNION {PlacesNamed(str(positive(g))) :
                                           g \in {h \in gs : h.negated}}}

\* The goal holds a negated literal of an atom that has a complement place
\* and a positive literal of an atom that has a place.
C9_Witness ==
  /\ Translated
  /\ \E g \in Range(pddl_goals(sas.goal_in)) :
       /\ g.negated
       /\ PlacesNamed(str(positive(g))) # {}
       /\ PlacesNamed(str(not_literal(g))) # {}
  /\ \E g \in Range(pddl_goals(sas.goal_in)) :
       ~g.negated /\ PlacesNamed(str(g)) # {}

\* C10: when grounding reports no relaxed solution, the run skips
\* expansion, polarity elimination and net construction and ends by
\* reporting an unsolvable result, a distinct outcome that is no crash.
C10_UnsolvableReported ==
  (~relaxed_reachable /\ pc \notin {"explore", "explored"}) =>
    /\ safe_operators = <<>>
    /\ additional_literals = <<>>
    /\ ~NetBuilt
    /\ pc = "done" => result \notin {"Done", "AttributeError"}

\* ------------------------------------------------------------------ C11
\* The names of the places of the net.
PlaceNames == {petri.places[i].name : i \in 1..Len(petri.places)}

\* The top-level goal literals for which neither str(goal) nor
\* str(goal.negate()) is the name of a place.
GoalsWithoutPlace ==
  {g \in Range(pddl_goals(sas.goal_in)) :
     str(g) \notin PlaceNames /\ str(negate(g)) \notin PlaceNames}

\* C11: when a top-level goal literal has no corresponding place,
\* sas_translate ends in a failure and emits no encoding: it never completes
\* with an encoding, so every completed translation has a place for each of
\* its goal literals.
C11_MissingGoalPlaceFails ==
  Translated => GoalsWithoutPlace = {}

\* ------------------------------------------------------------------ C12
\* The names of the places a transition lists as origins and as destinations.
OriginNames(t) == {petri.places[t.origins[i]].name : i \in 1..Len(t.origins)}

DestinationNames(t) ==
  {petri.places[t.destinations[j]].name : j \in 1..Len(t.destinations)}

\* The place names of the literals of a list.
StrOf(lits) == {str(l) : l \in Range(lits)}

\* C12: the transition petri_mapping builds for a safe polarity-free operator
\* has as origins the places of its preconditions, one listing per
\* precondition and in their order, and as destinations exactly the places of
\* its add-effects and of each precondition that is neither an add-effect nor
\* a del-effect; the place of a deleted precondition is a destination only
\* if it is the place of an add-effect.
C12_TransitionArcs ==
  NetBuilt =>
    /\ Len(petri.transitions) = Len(safe_operators)
    /\ \A n \in 1..Len(safe_operators) :
         LET op == safe_operators[n]
             t == petri.transitions[n]
             pres == StrOf(op.precondition)
             adds == StrOf(op.add_effects)
             dels == StrOf(op.del_effects)
         IN /\ t.name = op.name
            /\ Len(t.origins) = Len(op.precondition)
            /\ \A i \in 1..Len(t.origins) :
                 petri.places[t.origins[i]].name = str(op.precondition[i])
            /\ OriginNames(t) = pres
            /\ DestinationNames(t) =
                 adds \cup {p \in pres : p \notin adds /\ p \notin dels}
            /\ \A p \in pres \cap dels : p \in DestinationNames(t) => p \in adds

\* A net with a transition that consumes a deleted precondition, hands back
\* a precondition it does not delete and produces an add-effect that is no
\* precondition.
C12_Witness ==
  /\ NetBuilt
  /\ \E n \in 1..Len(safe_operators) :
       LET op == safe_operators[n]
           t == petri.transitions[n]
       IN /\ \E p \in StrOf(op.precondition) \cap StrOf(op.del_effects) :
               p \notin DestinationNames(t)
          /\ \E p \in StrOf(op.precondition) \ StrOf(op.add_effects) :
               p \in DestinationNames(t)
          /\ \E p \in StrOf(op.add_effects) \ StrOf(op.precondition) :
               p \in DestinationNames(t)

\* ------------------------------------------------------------------ C13
\* Lines 156-159: the variable assignment that encodes a marking, one binary
\* variable per place, 1 iff the place holds a token; variable v is entry
\* v + 1.
Encode(m) == [i \in 1..Len(m) |-> IF m[i] > 0 THEN 1 ELSE 0]

\* The pre_post list sas_translate emits for transition n of the net.
EmittedPrePost(n) == pre_post_of(petri.transitions[n], petri.places)

\* Every listed pre-value of a pre_post list holds in the assignment s.
PreHolds(pp, s) == \A k \in 1..Len(pp) : s[pp[k][1] + 1] = pp[k][2]

\* The assignment after setting the post-values of a pre_post list, in the
\* order of the list.
SetPost(pp, s) ==
  [i \in 1..Len(s) |->
     IF \E k \in 1..Len(pp) : pp[k][1] + 1 = i
     THEN pp[CHOOSE k \in 1..Len(pp) :
               /\ pp[k][1] + 1 = i
               /\ \A l \in (k + 1)..Len(pp) : pp[l][1] + 1 # i][3]
     ELSE s[i]]

\* C13: the encoding emitted by sas_translate simulates the net: in every
\* marking reachable from the initial marking, the operator emitted for a
\* transition is applicable in the assignment that encodes the marking
\* exactly when the transition is enabled, and setting its post-values gives
\* the assignment that encodes the marking after firing the transition.
C13_EncodingSimulatesNet ==
  (NetBuilt /\ pc \in {"mapped", "done"}) =>
    \A n \in 1..Len(petri.transitions) :
      LET t == petri.transitions[n]
          pp == EmittedPrePost(n)
      IN /\ Translated => sas.task.operators[n].pre_post = pp
         /\ PreHolds(pp, Encode(marking)) <=> enabled(t, marking)
         /\ enabled(t, marking) =>
              SetPost(pp, Encode(marking)) = Encode(fire(t, marking))

====
